---- MODULE Spec2Model ----
(***************************************************************************)
(* A model of playerprefs.py: the codec of the 22-field, comma-separated   *)
(* playerPrefs record.  Text is a sequence of one-character strings, so    *)
(* that splitting, joining, parsing and printing are computed character by *)
(* character.  A Python value that may be absent (None) is modelled as a   *)
(* sequence of length 0 or 1.                                              *)
(***************************************************************************)
EXTENDS Integers, Sequences, FiniteSets, TLC

VARIABLES
  string,    \* the text the caller holds: given to from_string, or returned by str()
  prefs,     \* the PlayerPrefs instance the caller holds (<<>> when none)
  file,      \* the contents of the playerPrefs file at the path used
  exc,       \* the exception the last call raised (NoExc when it returned)
  u8,        \* the U8 instance the caller holds (<<>> when none)
  op,        \* the last call made
  args,      \* the 22 values the caller has at hand for PlayerPrefs(...) (<<>> when none)
  number,    \* the integer the caller has at hand for U8(...) (<<>> when none)
  rendered,  \* history: the instance `string` was rendered from (<<>> when supplied)
  decoded,   \* history: the text `prefs` was decoded from (<<>> when constructed)
  written    \* history: the instance the last write() wrote (<<>> before any)

vars == <<string, prefs, file, exc, u8, op, args, number, rendered, decoded, written>>

----------------------------------------------------------------------------
\* Exceptions.  An exception is its class, its message template and the one
\* value the message is formatted with (has_arg tells whether there is one;
\* cls is the enumeration's name that the enum lookup's message also shows).

NoExc == [type |-> "", msg |-> "", has_arg |-> FALSE, arg |-> <<>>, cls |-> ""]

Raise(type, msg, has_arg, arg, cls) ==
  [exc |-> [type |-> type, msg |-> msg, has_arg |-> has_arg, arg |-> arg, cls |-> cls],
   val |-> <<>>]

Return(v) == [exc |-> NoExc, val |-> <<v>>]

----------------------------------------------------------------------------
\* Text primitives of the Python runtime used by the module.

Digits == <<"0", "1", "2", "3", "4", "5", "6", "7", "8", "9">>

IsDigit(c) == \E d \in 1..10 : Digits[d] = c

DigitValue(c) == (CHOOSE d \in 1..10 : Digits[d] = c) - 1

Whitespace == {" ", "\t", "\n", "\r"}

Min(S) == CHOOSE m \in S : \A n \in S : m <= n

Max(S) == CHOOSE m \in S : \A n \in S : n <= m

\* str(int): the decimal digits, most significant first, '-' before a negative.
RECURSIVE StrNat(_)
StrNat(n) ==
  IF n < 10 THEN <<Digits[n + 1]>>
  ELSE Append(StrNat(n \div 10), Digits[(n % 10) + 1])

StrInt(n) == IF n < 0 THEN <<"-">> \o StrNat(-n) ELSE StrNat(n)

\* A variant that spells the literals as other languages do.
StrBool_lower(b) == IF b THEN <<"t", "r", "u", "e">> ELSE <<"f", "a", "l", "s", "e">>

\* str(bool)
StrBool(b) == IF b THEN <<"T", "r", "u", "e">> ELSE <<"F", "a", "l", "s", "e">>

RECURSIVE LStrip(_)
LStrip(s) == IF s # <<>> /\ Head(s) \in Whitespace THEN LStrip(Tail(s)) ELSE s

RECURSIVE RStrip(_)
RStrip(s) ==
  IF s # <<>> /\ s[Len(s)] \in Whitespace THEN RStrip(SubSeq(s, 1, Len(s) - 1)) ELSE s

\* The digit part int() accepts in base 10: digits, with single underscores
\* between digits only.
WellFormedDigits(b) ==
  /\ b # <<>>
  /\ IsDigit(b[1])
  /\ IsDigit(b[Len(b)])
  /\ \A i \in 1..Len(b) :
       /\ IsDigit(b[i]) \/ b[i] = "_"
       /\ (i < Len(b) /\ b[i] = "_") => b[i + 1] # "_"

RECURSIVE DigitsValue(_, _)
DigitsValue(b, acc) ==
  IF b = <<>> THEN acc
  ELSE IF Head(b) = "_" THEN DigitsValue(Tail(b), acc)
  ELSE DigitsValue(Tail(b), (acc * 10) + DigitValue(Head(b)))

\* int(s) for a str s: surrounding whitespace is dropped, one sign is allowed,
\* then the digits; anything else raises ValueError, whose message shows s.
int(s) ==
  LET t    == RStrip(LStrip(s))
      sgn  == t # <<>> /\ Head(t) \in {"+", "-"}
      body == IF sgn THEN Tail(t) ELSE t
      mag  == DigitsValue(body, 0)
  IN  IF WellFormedDigits(body)
      THEN Return(IF sgn /\ Head(t) = "-" THEN -mag ELSE mag)
      ELSE Raise("ValueError", "invalid literal for int() with base 10: %r", TRUE, s, "")

\* s.split(sep): the pieces between the occurrences of sep; always at least one.
RECURSIVE split(_, _)
split(s, sep) ==
  IF \E i \in 1..Len(s) : s[i] = sep
  THEN LET i == Min({j \in 1..Len(s) : s[j] = sep})
       IN  <<SubSeq(s, 1, i - 1)>> \o split(SubSeq(s, i + 1, Len(s)), sep)
  ELSE <<s>>

\* sep.join(parts)
RECURSIVE join(_, _)
join(sep, parts) ==
  IF parts = <<>> THEN <<>>
  ELSE IF Len(parts) = 1 THEN parts[1]
  ELSE parts[1] \o <<sep>> \o join(sep, Tail(parts))

\* The strings seqs[lo], ..., seqs[hi] one after the other.
RECURSIVE Concat(_, _, _)
Concat(seqs, lo, hi) ==
  IF lo > hi THEN <<>>
  ELSE IF lo = hi THEN seqs[lo]
  ELSE Concat(seqs, lo, (lo + hi) \div 2) \o Concat(seqs, ((lo + hi) \div 2) + 1, hi)

----------------------------------------------------------------------------
\* BOOL = {'True': True, 'False': False}
BOOL ==
  [k \in {<<"T", "r", "u", "e">>, <<"F", "a", "l", "s", "e">>} |-> k = <<"T", "r", "u", "e">>]

\* BOOL[key]: a key the dict does not hold raises KeyError(key).
BOOL_getitem(key) ==
  IF key \in DOMAIN BOOL THEN Return(BOOL[key])
  ELSE Raise("KeyError", "%r", TRUE, key, "")

\* A variant with the upper end of the range excluded.
U8_init_below(value) ==
  IF 0 <= value /\ value < 255 THEN [exc |-> NoExc, val |-> <<value>>]
  ELSE Raise("ValueError", "UInt7 must be between 0 and 255.", FALSE, <<>>, "")

\* U8.__init__ on the integer value: the range check.
U8_init(value) ==
  IF 0 <= value /\ value <= 255 THEN Return(value)
  ELSE Raise("ValueError", "UInt7 must be between 0 and 255.", FALSE, <<>>, "")

\* U8(text): int.__new__ parses the text, then __init__ checks int(text).
U8(text) ==
  LET i == int(text) IN IF i.exc # NoExc THEN i ELSE U8_init(i.val[1])

----------------------------------------------------------------------------
\* class Control(IntEnum): its names and values, in declaration order.
Control ==
  <<
    <<"MOUSE", 0>>, <<"MOUSE_AND_KEYBOARD", 1>>
  >>

\* class Color(IntEnum): its names and values, in declaration order.
Color ==
  <<
    <<"RED", 0>>, <<"BLUE", 1>>, <<"GREEN", 2>>,
    <<"PINK", 3>>, <<"ORANGE", 4>>, <<"YELLOW", 5>>,
    <<"BLACK", 6>>, <<"WHITE", 7>>, <<"PURPLE", 8>>,
    <<"BROWN", 9>>, <<"CYAN", 10>>, <<"LIME", 11>>
  >>

\* class Hat(IntEnum): its names and values, in declaration order.
Hat ==
  <<
    <<"NONE", 0>>, <<"PARTY", 28>>, <<"FEDORA", 43>>,
    <<"SKI", 44>>, <<"SURGICAL_MASK", 47>>, <<"COWBOY", 49>>,
    <<"BANANA", 50>>, <<"BALACLAVA", 51>>, <<"MOUSE_EARS", 52>>,
    <<"CHEESE", 53>>, <<"CHERRY", 54>>, <<"FRIED_EGG", 55>>,
    <<"BLACK_HAT", 56>>, <<"FLAMINGO", 57>>, <<"FLOWER", 58>>,
    <<"ROMAN", 59>>, <<"LEAVES", 60>>, <<"CROWN", 30>>,
    <<"EYEBROWS", 31>>, <<"HALO", 32>>, <<"POINTED_HAT", 33>>,
    <<"DIVING_GOGGLES", 36>>, <<"STICKMAN", 37>>, <<"TELESCOPE_EYE", 40>>,
    <<"TOILET_PAPER", 41>>, <<"LEPRECHAUN", 42>>, <<"FLAT_CAP", 34>>,
    <<"PLUNGER", 35>>, <<"TOPEE", 38>>, <<"SHERRIFF", 39>>,
    <<"ANTENNA", 76>>, <<"ASTRONAUT", 1>>, <<"BALLOON", 77>>,
    <<"BASEBALL_CAP", 2>>, <<"NEST", 78>>, <<"NINJA_HEADBAND", 79>>,
    <<"ALIEN", 3>>, <<"BROWN_HAT", 4>>, <<"PILOT", 5>>,
    <<"WET_FLOOR_SIGN", 80>>, <<"CHEF", 81>>, <<"BLUE_HAT", 82>>,
    <<"BANDANA", 83>>, <<"DOUBLE_TOP_HAT", 6>>, <<"STICKY_NOTE", 84>>,
    <<"FEZ", 85>>, <<"FLOWER_POT", 7>>, <<"PILOT_GREEN", 86>>,
    <<"NIGHT_VISION", 8>>, <<"ELVIS", 87>>, <<"BUILDING_SITE", 9>>,
    <<"UNKNOWN", 88>>, <<"SOLDIER", 89>>, <<"OFFICER", 10>>,
    <<"MINIME", 90>>, <<"NINJA_MASK", 90>>, <<"PAPER", 11>>,
    <<"CLOWN", 12>>, <<"POLICE", 13>>, <<"HORNS", 92>>,
    <<"BOBBLE", 93>>, <<"SURGEON", 14>>, <<"TOPHAT", 15>>,
    <<"TOWEL", 16>>, <<"BEARSKIN", 17>>, <<"VIKING", 18>>,
    <<"SECURITY", 19>>, <<"WHITE_TOPHAT", 29>>
  >>

\* class Skin(IntEnum): its names and values, in declaration order.
Skin ==
  <<
    <<"NONE", 0>>, <<"ASTRONAUT", 1>>, <<"PILOT", 2>>,
    <<"BLUEY", 3>>, <<"SOLDIER", 4>>, <<"POLICE", 5>>,
    <<"LAB_COAT", 6>>, <<"SUIT_BLACK", 7>>, <<"SUIT_WHITE", 8>>,
    <<"SECURITY", 9>>
  >>

\* class Pet(IntEnum): its names and values, in declaration order.
Pet ==
  <<
    <<"NONE", 0>>
  >>

\* class Language(IntEnum): its names and values, in declaration order.
Language ==
  <<
    <<"ENGLISH", 0>>, <<"SPANISH", 1>>, <<"PORTOGUESE", 2>>,
    <<"KOREAN", 3>>, <<"RUSSIAN", 4>>
  >>

EnumClass(cls) ==
  CASE cls = "Control"  -> Control
    [] cls = "Color"    -> Color
    [] cls = "Hat"      -> Hat
    [] cls = "Skin"     -> Skin
    [] cls = "Pet"      -> Pet
    [] cls = "Language" -> Language

\* The values an enumeration defines.
Values(decl) == {decl[i][2] : i \in 1..Len(decl)}

\* A variant in which a later name takes a value over from an earlier one.
MemberName_last(decl, value) ==
  decl[CHOOSE i \in 1..Len(decl) :
         decl[i][2] = value /\ \A j \in 1..Len(decl) : decl[j][2] = value => j <= i][1]

\* The member a value belongs to: the first name declared with the value.
\* A later name with the same value is an alias of that member (Hat.NINJA_MASK
\* is Hat.MINIME).
MemberName(decl, value) ==
  decl[Min({i \in 1..Len(decl) : decl[i][2] = value})][1]

\* A variant that checks the value against the span of the defined values
\* instead of the values themselves.
EnumCall_range(cls, value) ==
  LET decl == EnumClass(cls)
  IN  IF 0 <= value /\ value <= Max(Values(decl))
      THEN [exc |-> NoExc,
            val |-> <<[enum  |-> cls,
                       name  |-> IF value \in Values(decl)
                                 THEN decl[Min({i \in 1..Len(decl) : decl[i][2] = value})][1]
                                 ELSE "",
                       value |-> value]>>]
      ELSE Raise("ValueError", "%r is not a valid %s", TRUE, StrInt(value), cls)

\* cls(value): the member with that value; ValueError when there is none.
EnumCall(cls, value) ==
  IF value \in Values(EnumClass(cls))
  THEN Return([enum |-> cls, name |-> MemberName(EnumClass(cls), value), value |-> value])
  ELSE Raise("ValueError", "%r is not a valid %s", TRUE, StrInt(value), cls)

\* cls[name]: the member a declared name refers to.
EnumGetItem(cls, name) ==
  LET decl == EnumClass(cls)
      i    == CHOOSE j \in 1..Len(decl) : decl[j][1] = name
  IN  EnumCall(cls, decl[i][2]).val[1]

\* A plain int held where a member is expected (the dataclass does not look).
PlainInt(value) == [enum |-> "int", name |-> "", value |-> value]

----------------------------------------------------------------------------
\* @dataclass class PlayerPrefs: the fields and their annotated types.

Annotation ==
  [name      |-> "str",      control     |-> "Control", color    |-> "Color",
   unknown3  |-> "int",      unknown4    |-> "bool",    unknown5 |-> "bool",
   unknown6  |-> "bool",     unknown7    |-> "int",     unknown8 |-> "bool",
   unknown9  |-> "bool",     hat         |-> "Hat",     sfx      |-> "U8",
   music     |-> "U8",       unknown13   |-> "int",     unknown14 |-> "int",
   skin      |-> "Skin",     pet         |-> "Pet",     censor_chat |-> "bool",
   language  |-> "Language", vsync       |-> "bool",    unknown20 |-> "int",
   unknown21 |-> "int"]

\* The generated __init__: the 22 positional arguments are stored as given;
\* nothing is converted or checked.
PlayerPrefs(a) ==
  [name      |-> a[1],  control     |-> a[2],  color    |-> a[3],
   unknown3  |-> a[4],  unknown4    |-> a[5],  unknown5 |-> a[6],
   unknown6  |-> a[7],  unknown7    |-> a[8],  unknown8 |-> a[9],
   unknown9  |-> a[10], hat         |-> a[11], sfx      |-> a[12],
   music     |-> a[13], unknown13   |-> a[14], unknown14 |-> a[15],
   skin      |-> a[16], pet         |-> a[17], censor_chat |-> a[18],
   language  |-> a[19], vsync       |-> a[20], unknown20 |-> a[21],
   unknown21 |-> a[22]]

\* A field's value together with the type it has, which is what str() and ==
\* dispatch on.
Attr(self, f) == <<Annotation[f], self[f]>>

\* A variant that yields music before sfx, out of step with from_list.
iter_swapped(self) ==
  <<Attr(self, "name"),      Attr(self, "control"),   Attr(self, "color"),
    Attr(self, "unknown3"),  Attr(self, "unknown4"),  Attr(self, "unknown5"),
    Attr(self, "unknown6"),  Attr(self, "unknown7"),  Attr(self, "unknown8"),
    Attr(self, "unknown9"),  Attr(self, "hat"),       Attr(self, "music"),
    Attr(self, "sfx"),       Attr(self, "unknown13"), Attr(self, "unknown14"),
    Attr(self, "skin"),      Attr(self, "pet"),       Attr(self, "censor_chat"),
    Attr(self, "language"),  Attr(self, "vsync"),     Attr(self, "unknown20"),
    Attr(self, "unknown21")>>

\* PlayerPrefs.__iter__: the fields, in the order they are yielded.
__iter__(self) ==
  <<Attr(self, "name"),      Attr(self, "control"),   Attr(self, "color"),
    Attr(self, "unknown3"),  Attr(self, "unknown4"),  Attr(self, "unknown5"),
    Attr(self, "unknown6"),  Attr(self, "unknown7"),  Attr(self, "unknown8"),
    Attr(self, "unknown9"),  Attr(self, "hat"),       Attr(self, "sfx"),
    Attr(self, "music"),     Attr(self, "unknown13"), Attr(self, "unknown14"),
    Attr(self, "skin"),      Attr(self, "pet"),       Attr(self, "censor_chat"),
    Attr(self, "language"),  Attr(self, "vsync"),     Attr(self, "unknown20"),
    Attr(self, "unknown21")>>

\* str(x): a str is itself, a bool is True/False, an int (U8 included) its
\* decimal form, and the enumerations' __str__ is str(self.value).
str(x) ==
  CASE x[1] = "str"           -> x[2]
    [] x[1] = "bool"          -> StrBool(x[2])
    [] x[1] \in {"int", "U8"} -> StrInt(x[2])
    [] OTHER                  -> StrInt(x[2].value)

\* PlayerPrefs.__str__: ','.join(map(str, self))
__str__(self) ==
  LET it == __iter__(self)
  IN  join(",", [i \in 1..Len(it) |-> str(it[i])])

\* a == b on two values of one field (an IntEnum member compares as its int).
ValueEq(x, y) ==
  IF x[1] \in {"str", "bool", "int", "U8"} THEN x[2] = y[2]
  ELSE x[2].value = y[2].value

\* The generated __eq__: the tuples of the fields are equal.
PrefsEq(self, other) ==
  \A f \in DOMAIN Annotation : ValueEq(Attr(self, f), Attr(other, f))

\* cls(int(text)) for an enumeration cls.
EnumOfText(cls, text) ==
  LET i == int(text) IN IF i.exc # NoExc THEN i ELSE EnumCall(cls, i.val[1])

\* The 22 arguments of the cls(...) call in from_list, in the order Python
\* evaluates them (lst[0] is lst[1] here).
Arguments(lst) ==
  <<Return(lst[1]),               EnumOfText("Control", lst[2]),
    EnumOfText("Color", lst[3]),  int(lst[4]),
    BOOL_getitem(lst[5]),         BOOL_getitem(lst[6]),
    BOOL_getitem(lst[7]),         int(lst[8]),
    BOOL_getitem(lst[9]),         BOOL_getitem(lst[10]),
    EnumOfText("Hat", lst[11]),   U8(lst[12]),
    U8(lst[13]),                  int(lst[14]),
    int(lst[15]),                 EnumOfText("Skin", lst[16]),
    EnumOfText("Pet", lst[17]),   BOOL_getitem(lst[18]),
    EnumOfText("Language", lst[19]), BOOL_getitem(lst[20]),
    int(lst[21]),                 int(lst[22])>>

\* A variant that only refuses a list that is too short.
from_list_at_least(lst) ==
  IF Len(lst) < 22
  THEN Raise("ValueError", "Excpected iterable with 22 fields.", FALSE, <<>>, "")
  ELSE LET a      == Arguments(lst)
           raised == {i \in 1..22 : a[i].exc # NoExc}
       IN  IF raised # {}
           THEN [exc |-> a[Min(raised)].exc, val |-> <<>>]
           ELSE [exc |-> NoExc, val |-> <<PlayerPrefs([i \in 1..22 |-> a[i].val[1]])>>]

\* PlayerPrefs.from_list: the length check, then the arguments left to right
\* (the first one that raises ends the call), then the constructor.
from_list(lst) ==
  IF Len(lst) # 22
  THEN Raise("ValueError", "Excpected iterable with 22 fields.", FALSE, <<>>, "")
  ELSE LET a      == Arguments(lst)
           raised == {i \in 1..22 : a[i].exc # NoExc}
       IN  IF raised # {}
           THEN [exc |-> a[Min(raised)].exc, val |-> <<>>]
           ELSE Return(PlayerPrefs([i \in 1..22 |-> a[i].val[1]]))

\* PlayerPrefs.from_string
from_string(s) == from_list(split(s, ","))

\* file.read() of a file opened with open(path, 'r'): text mode with the
\* default newline=None, so '\r\n' and a lone '\r' are read as '\n'.
read(contents) ==
  Concat([i \in 1..Len(contents) |->
            IF contents[i] = "\r" THEN <<"\n">>
            ELSE IF contents[i] = "\n" /\ i > 1 /\ contents[i - 1] = "\r" THEN <<>>
            ELSE <<contents[i]>>],
         1, Len(contents))

\* PlayerPrefs.from_buffer
from_buffer(contents) == from_string(read(contents))

\* PlayerPrefs.from_path, given what the file at the path holds.
from_path(contents) == from_buffer(contents)

\* open(path, 'w'): the file is truncated to nothing.
open_w(contents) == <<>>

\* os.linesep, which text mode writes for each '\n' (POSIX: the module's own
\* test() looks under ~/.local/share/Steam).
linesep == <<"\n">>

\* file.write(text) at the start of an open file: the characters replace what
\* is there, and whatever lies beyond them stays.
encode_newlines(text) ==
  Concat([i \in 1..Len(text) |-> IF text[i] = "\n" THEN linesep ELSE <<text[i]>>],
         1, Len(text))

file_write(contents, text) ==
  LET data == encode_newlines(text)
  IN  data \o SubSeq(contents, Len(data) + 1, Len(contents))

\* PlayerPrefs.write: what the file at the path holds afterwards.
write(self, contents) == file_write(open_w(contents), __str__(self))

----------------------------------------------------------------------------
\* The inputs the calls are made with.

MaxNameLen == 2   \* the longest name tried
MaxInt == 257     \* the largest integer tried for sfx, music and U8(...)
EnumSlack == 2    \* how far beyond an enumeration's largest value codes are tried

\* A playerPrefs line as the game writes it.
SampleText ==
  <<"B", "o", "b", ",", "1", ",", "2", ",", "0", ",", "T", "r", "u", "e",
    ",", "F", "a", "l", "s", "e", ",", "T", "r", "u", "e", ",", "0", ",",
    "F", "a", "l", "s", "e", ",", "T", "r", "u", "e", ",", "3", "0", ",",
    "1", "0", "0", ",", "1", "0", "0", ",", "0", ",", "0", ",", "3", ",",
    "0", ",", "T", "r", "u", "e", ",", "0", ",", "F", "a", "l", "s", "e",
    ",", "0", ",", "0">>

\* Another well-formed line: other members, a negative number, the ends of 0..255.
OtherText ==
  <<"a", ",", "0", ",", "1", "1", ",", "-", "5", ",", "F", "a", "l", "s",
    "e", ",", "T", "r", "u", "e", ",", "F", "a", "l", "s", "e", ",", "7",
    ",", "T", "r", "u", "e", ",", "F", "a", "l", "s", "e", ",", "9", "0",
    ",", "0", ",", "2", "5", "5", ",", "1", "2", ",", "0", ",", "9", ",",
    "0", ",", "F", "a", "l", "s", "e", ",", "4", ",", "T", "r", "u", "e",
    ",", "-", "1", ",", "3">>

\* Tokens tried in every position: what the encoder writes and what it does not.
LiteralTokens ==
  {<<>>,
   <<"x">>,
   <<"+", "1">>,
   <<"0", "1">>,
   <<" ", "1">>,
   <<"1", "_", "0">>,
   <<"1", "_", "_", "0">>,
   <<"-", "0">>,
   <<"-", " ", "1">>,
   <<"t", "r", "u", "e">>,
   <<" ", "T", "r", "u", "e">>,
   <<"T", "r", "u", "e">>,
   <<"F", "a", "l", "s", "e">>,
   <<"1">>,
   <<"0">>}

\* What the file holds before the first write: an older, longer line.
OldFile == SampleText \o <<",", "9", "9", "9", "9", "9", "9", "9">>

\* The characters names are made of: a letter, the separator, the two line ends.
NameChars == {"B", ",", "\r", "\n"}

Names == UNION {[1..n -> NameChars] : n \in 0..MaxNameLen}

\* The integers tried for the plain integer fields and for sfx and music in a
\* line or a constructor call (U8(...) itself is tried on all of -2..MaxInt).
IntSamples == {-MaxInt, -10, -1, 0, 10, MaxInt}

U8Samples == {-MaxInt, -1, 0, 1, 128, 254, 255, 256, MaxInt}

\* The integers tried for a field of enumeration cls: every defined value, the
\* gaps between them, and a little beyond both ends.
EnumRange(cls) == (-1)..(Max(Values(EnumClass(cls))) + EnumSlack)

\* The dataclass fields in declaration order, which is the constructor's.
FieldNames ==
  <<"name", "control", "color", "unknown3", "unknown4", "unknown5", "unknown6",
    "unknown7", "unknown8", "unknown9", "hat", "sfx", "music", "unknown13",
    "unknown14", "skin", "pet", "censor_chat", "language", "vsync", "unknown20",
    "unknown21">>

TypeAt(i) == Annotation[FieldNames[i]]

IsEnumType(t) == t \in {"Control", "Color", "Hat", "Skin", "Pet", "Language"}

\* The tokens tried at position i of a line, besides the literal ones.
TextPool(i) ==
  LET t == TypeAt(i)
  IN  CASE t = "str"  -> Names
        [] t = "bool" -> {}
        [] t = "int"  -> {StrInt(n) : n \in IntSamples}
        [] t = "U8"   -> {StrInt(n) : n \in U8Samples}
        [] OTHER      -> {StrInt(n) : n \in EnumRange(t)}

\* The values tried as the i-th constructor argument: for an enumeration every
\* declared name (aliases too), and as plain integers 0 and every undefined
\* code of the range.
ValuePool(i) ==
  LET t == TypeAt(i)
  IN  CASE t = "str"  -> Names
        [] t = "bool" -> BOOLEAN
        [] t = "int"  -> IntSamples
        [] t = "U8"   -> U8Samples
        [] OTHER      -> {EnumGetItem(t, EnumClass(t)[k][1]) : k \in 1..Len(EnumClass(t))}
                           \cup {PlainInt(n) :
                                   n \in {0} \cup (EnumRange(t) \ Values(EnumClass(t)))}

\* The constructor arguments that spell the two lines above.
SampleArgs ==
  <<<<"B", "o", "b">>, EnumGetItem("Control", "MOUSE_AND_KEYBOARD"),
    EnumGetItem("Color", "GREEN"), 0, TRUE, FALSE, TRUE, 0, FALSE, TRUE,
    EnumGetItem("Hat", "CROWN"), 100, 100, 0, 0, EnumGetItem("Skin", "BLUEY"),
    EnumGetItem("Pet", "NONE"), TRUE, EnumGetItem("Language", "ENGLISH"), FALSE,
    0, 0>>

OtherArgs ==
  <<<<"a">>, EnumGetItem("Control", "MOUSE"), EnumGetItem("Color", "LIME"), -5,
    FALSE, TRUE, FALSE, 7, TRUE, FALSE, EnumGetItem("Hat", "NINJA_MASK"), 0, 255,
    12, 0, EnumGetItem("Skin", "SECURITY"), EnumGetItem("Pet", "NONE"), FALSE,
    EnumGetItem("Language", "RUSSIAN"), TRUE, -1, 3>>

\* Lines of 22 fields: a well-formed line with one token replaced, by a
\* literal token in either line and by the position's own pool in the sample.
EditedTexts ==
  UNION {{join(",", [split(b, ",") EXCEPT ![i] = t]) : t \in LiteralTokens} :
           b \in {SampleText, OtherText}, i \in 1..22}
    \cup UNION {{join(",", [split(SampleText, ",") EXCEPT ![i] = t]) : t \in TextPool(i)} :
                  i \in 1..22}

\* Lines of 21 and 23 fields, whatever the tokens are, and the empty line.
ResizedTexts ==
  {<<>>} \cup
  UNION {LET e == [split(OtherText, ",") EXCEPT ![i] = t]
         IN  {join(",", SubSeq(e, 1, 21)), join(",", Append(e, <<"0">>))} :
           i \in 1..22, t \in {<<>>, <<"x">>, <<"-", "0">>, <<"t", "r", "u", "e">>, <<"0">>}}

Texts == EditedTexts \cup ResizedTexts

ArgsSet ==
  {OtherArgs} \cup
  UNION {{[SampleArgs EXCEPT ![i] = v] : v \in ValuePool(i)} : i \in 1..22}

\* What a caller starts with: a line to decode, or values to construct from
\* (with a line at hand too when only the name varies), or a number for U8(...).
Scenarios ==
  {[text |-> t, args |-> <<>>, number |-> <<>>] : t \in Texts}
    \cup {[text |-> <<>>, args |-> <<a>>, number |-> <<>>] : a \in ArgsSet}
    \cup {[text |-> SampleText, args |-> <<[OtherArgs EXCEPT ![1] = n]>>, number |-> <<>>] :
            n \in Names}
    \cup {[text |-> <<>>, args |-> <<>>, number |-> <<n>>] : n \in (-2)..MaxInt}

----------------------------------------------------------------------------
Init ==
  \E s \in Scenarios :
    /\ string = s.text
    /\ args = s.args
    /\ number = s.number
    /\ prefs = <<>>
    /\ u8 = <<>>
    /\ file = OldFile
    /\ exc = NoExc
    /\ op = "init"
    /\ rendered = <<>>
    /\ decoded = <<>>
    /\ written = <<>>

\* p = PlayerPrefs(*args)
Construct ==
  /\ args # <<>>
  /\ prefs' = <<PlayerPrefs(args[1])>>
  /\ exc' = NoExc
  /\ op' = "PlayerPrefs"
  /\ decoded' = <<>>
  /\ UNCHANGED <<string, file, u8, args, number, rendered, written>>

\* u = U8(number)
NewU8 ==
  /\ number # <<>>
  /\ LET r == U8_init(number[1])
     IN  /\ exc' = r.exc
         /\ u8' = IF r.exc = NoExc THEN r.val ELSE u8
  /\ op' = "U8"
  /\ UNCHANGED <<string, prefs, file, args, number, rendered, decoded, written>>

\* p = PlayerPrefs.from_string(string)
FromString ==
  /\ LET r == from_string(string)
     IN  /\ exc' = r.exc
         /\ prefs' = IF r.exc = NoExc THEN r.val ELSE prefs
         /\ decoded' = IF r.exc = NoExc THEN <<string>> ELSE decoded
  /\ op' = "from_string"
  /\ UNCHANGED <<string, file, u8, args, number, rendered, written>>

\* string = str(p)
Str ==
  /\ prefs # <<>>
  /\ string' = __str__(prefs[1])
  /\ rendered' = prefs
  /\ exc' = NoExc
  /\ op' = "str"
  /\ UNCHANGED <<prefs, file, u8, args, number, decoded, written>>

\* p.write(path)
Write ==
  /\ prefs # <<>>
  /\ file' = write(prefs[1], file)
  /\ written' = prefs
  /\ exc' = NoExc
  /\ op' = "write"
  /\ UNCHANGED <<string, prefs, u8, args, number, rendered, decoded>>

\* p = PlayerPrefs.from_path(path)
FromPath ==
  /\ LET r == from_path(file)
     IN  /\ exc' = r.exc
         /\ prefs' = IF r.exc = NoExc THEN r.val ELSE prefs
         /\ decoded' = IF r.exc = NoExc THEN <<read(file)>> ELSE decoded
  /\ op' = "from_path"
  /\ UNCHANGED <<string, file, u8, args, number, rendered, written>>

Next == Construct \/ NewU8 \/ FromString \/ Str \/ Write \/ FromPath

Spec == Init /\ [][Next]_vars

----------------------------------------------------------------------------
\* Vocabulary of the properties.

Tokens(s) == split(s, ",")

EnumPositions == {i \in 1..22 : IsEnumType(TypeAt(i))}

BoolPositions == {i \in 1..22 : TypeAt(i) = "bool"}

U8Positions == {i \in 1..22 : TypeAt(i) = "U8"}

CommaFree(name) == \A i \in 1..Len(name) : name[i] # ","

\* A record as the data model wants it: every enum field holds a defined code
\* of its enumeration, sfx and music lie in 0..255.
ValidRecord(r) ==
  \A i \in 1..22 :
    LET t == TypeAt(i)
        v == r[FieldNames[i]]
    IN  /\ IsEnumType(t) => v.value \in Values(EnumClass(t))
        /\ t = "U8" => (0 <= v /\ v <= 255)

\* A token that decodes at position i.
TokenValid(i, tok) ==
  LET t == TypeAt(i)
  IN  CASE t = "str"  -> TRUE
        [] t = "bool" -> tok \in {<<"T", "r", "u", "e">>, <<"F", "a", "l", "s", "e">>}
        [] t = "int"  -> int(tok).exc = NoExc
        [] t = "U8"   -> int(tok).exc = NoExc /\ int(tok).val[1] \in 0..255
        [] OTHER      -> int(tok).exc = NoExc /\ int(tok).val[1] \in Values(EnumClass(t))

OtherwiseValid(toks, p) == \A q \in (1..22) \ {p} : TokenValid(q, toks[q])

FieldCountError(e) ==
  e.type = "ValueError" /\ e.msg = "Excpected iterable with 22 fields."

OutOfRangeError(e) ==
  e.type = "ValueError" /\ e.msg = "UInt7 must be between 0 and 255."

UndefinedCodeError(e, cls, v) ==
  /\ e.type = "ValueError"
  /\ e.msg = "%r is not a valid %s"
  /\ e.cls = cls
  /\ e.arg = StrInt(v)

----------------------------------------------------------------------------
\* C1: round trip.  When a record whose enum fields hold defined codes, whose
\* sfx and music lie in 0..255 and whose name has no comma is rendered with
\* str() and the text is decoded with from_string, the decode returns, and the
\* record it returns equals the rendered one in all 22 fields.
C1_RoundTrip ==
  (/\ op = "from_string"
   /\ rendered # <<>>
   /\ ValidRecord(rendered[1])
   /\ CommaFree(rendered[1].name))
    => (/\ exc = NoExc
        /\ decoded = <<string>>
        /\ prefs # <<>>
        /\ PrefsEq(prefs[1], rendered[1]))

\* A constructed record with a negative number and unequal volumes has been
\* rendered and decoded back.
C1_Witness ==
  /\ op = "from_string"
  /\ exc = NoExc
  /\ args # <<>>
  /\ rendered = <<PlayerPrefs(args[1])>>
  /\ ValidRecord(rendered[1])
  /\ CommaFree(rendered[1].name)
  /\ rendered[1].unknown3 < 0
  /\ rendered[1].sfx # rendered[1].music
  /\ PrefsEq(prefs[1], rendered[1])

\* C2: field-count guard.  Decoding a text that does not split into exactly 22
\* parts raises the field-count ValueError, whatever the tokens are (a token
\* that could not be converted does not get its own error raised instead), and
\* no record is decoded from the text.
C2_FieldCountGuard ==
  (op = "from_string" /\ Len(Tokens(string)) # 22)
    => (FieldCountError(exc) /\ decoded # <<string>>)

\* A text of 23 parts with a token no field accepts has been refused for its
\* length.
C2_Witness ==
  /\ op = "from_string"
  /\ Len(Tokens(string)) = 23
  /\ \E i \in 2..22 : Tokens(string)[i] = <<"x">>
  /\ FieldCountError(exc)

\* C3 (as claimed): decoding a 22-field text that has, at one of the seven
\* boolean positions, a token other than 'True' and 'False' fails, and with a
\* ValueError.
C3_BooleanStrictness ==
  (/\ op = "from_string"
   /\ Len(Tokens(string)) = 22
   /\ \E p \in BoolPositions :
        Tokens(string)[p] \notin {<<"T", "r", "u", "e">>, <<"F", "a", "l", "s", "e">>})
    => (exc # NoExc /\ exc.type = "ValueError")

\* C4: enum closure.  In a decode of a 22-field text, for each enum position:
\* if the decode returns, the token is an integer that is a defined code of
\* the enumeration and the field holds the member with that code (color 11 is
\* LIME); and when the other tokens are valid, the decode returns exactly when
\* the token's integer is a defined code, and otherwise raises the ValueError
\* of the undefined code.
C4_EnumClosure ==
  (op = "from_string" /\ Len(Tokens(string)) = 22)
    => \A p \in EnumPositions :
         LET cls  == TypeAt(p)
             tok  == Tokens(string)[p]
             i    == int(tok)
             v    == i.val[1]
             decl == EnumClass(cls)
         IN  /\ exc = NoExc =>
                  /\ i.exc = NoExc
                  /\ v \in Values(decl)
                  /\ prefs[1][FieldNames[p]].enum = cls
                  /\ prefs[1][FieldNames[p]].value = v
                  /\ \E k \in 1..Len(decl) : decl[k] = <<prefs[1][FieldNames[p]].name, v>>
                  /\ (cls = "Color" /\ v = 11) => prefs[1][FieldNames[p]].name = "LIME"
             /\ (OtherwiseValid(Tokens(string), p) /\ i.exc = NoExc) =>
                  IF v \in Values(decl) THEN exc = NoExc
                  ELSE UndefinedCodeError(exc, cls, v)
             /\ (OtherwiseValid(Tokens(string), p) /\ i.exc # NoExc) => exc = i.exc

\* The color token 12, one past LIME, has been refused as not a Color.
C4_Witness ==
  /\ op = "from_string"
  /\ Len(Tokens(string)) = 22
  /\ Tokens(string)[3] = <<"1", "2">>
  /\ UndefinedCodeError(exc, "Color", 12)

\* C5: bounded range.  In a decode of a 22-field text whose other tokens are
\* valid, a sfx or music token that is an integer v is accepted exactly when
\* 0 <= v <= 255, the field then holding v, and is otherwise refused with the
\* out-of-range ValueError; and U8(v) returns for exactly the v in 0..255.
C5_BoundedRange ==
  /\ (op = "from_string" /\ Len(Tokens(string)) = 22)
       => \A p \in U8Positions :
            LET i == int(Tokens(string)[p])
                v == i.val[1]
            IN  (OtherwiseValid(Tokens(string), p) /\ i.exc = NoExc) =>
                  IF 0 <= v /\ v <= 255
                  THEN exc = NoExc /\ prefs[1][FieldNames[p]] = v
                  ELSE OutOfRangeError(exc)
  /\ op = "U8"
       => IF 0 <= number[1] /\ number[1] <= 255
          THEN exc = NoExc /\ u8 = number
          ELSE OutOfRangeError(exc) /\ u8 = <<>>

\* The sfx token 255 has been accepted.
C5_Witness ==
  /\ op = "from_string"
  /\ Len(Tokens(string)) = 22
  /\ Tokens(string)[12] = <<"2", "5", "5">>
  /\ exc = NoExc
  /\ prefs[1].sfx = 255

\* C6 (as claimed): every record that exists, however it was made, has its
\* enum fields among the defined codes and sfx and music in 0..255, because
\* the constructor refuses anything else.
C6_ConstructionValidates == prefs # <<>> => ValidRecord(prefs[1])

\* C7 (as claimed): every error a decode raises names the field that failed
\* (the enumeration's name is the nearest thing a message has to one) and
\* shows the value received for it.
C7_ErrorsIdentifyFieldAndValue ==
  (op \in {"from_string", "from_path"} /\ exc # NoExc)
    => (exc.cls # "" /\ exc.has_arg)

\* The form of an integer token as the claim describes it: decimal digits
\* with an optional leading '-', no '+', no leading zero, nothing else.
PlainDecimal(tok) ==
  LET body == IF tok # <<>> /\ Head(tok) = "-" THEN Tail(tok) ELSE tok
  IN  /\ body # <<>>
      /\ \A i \in 1..Len(body) : IsDigit(body[i])
      /\ Len(body) > 1 => body[1] # "0"

\* A 22-field text whose boolean tokens are True/False and whose integer and
\* enum tokens are plain decimals (minus_zero: whether '-0' counts as one).
InWrittenForm(toks, minus_zero) ==
  /\ Len(toks) = 22
  /\ \A i \in 1..22 :
       CASE TypeAt(i) = "str"  -> TRUE
         [] TypeAt(i) = "bool" -> toks[i] \in {<<"T", "r", "u", "e">>, <<"F", "a", "l", "s", "e">>}
         [] OTHER              -> PlainDecimal(toks[i]) /\ (minus_zero \/ toks[i] # <<"-", "0">>)

\* C8 (as claimed): rendering the record decoded from a 22-field text whose
\* tokens are True/False and plain decimals with an optional leading '-'
\* gives back the text, character for character.
C8_ReEncodeAsClaimed ==
  (op = "str" /\ decoded # <<>> /\ InWrittenForm(Tokens(decoded[1]), TRUE))
    => string = decoded[1]

\* C8 (amended): the same, for texts none of whose integer or enum tokens is
\* '-0' (which decodes to 0 and is written '0'); and the sample line decodes
\* to the members and numbers the specification lists.
C8_ReEncode ==
  /\ (op = "str" /\ decoded # <<>> /\ InWrittenForm(Tokens(decoded[1]), FALSE))
       => string = decoded[1]
  /\ (decoded = <<SampleText>>)
       => /\ prefs[1].name = <<"B", "o", "b">>
          /\ prefs[1].control = [enum |-> "Control", name |-> "MOUSE_AND_KEYBOARD", value |-> 1]
          /\ prefs[1].color = [enum |-> "Color", name |-> "GREEN", value |-> 2]
          /\ prefs[1].hat = [enum |-> "Hat", name |-> "CROWN", value |-> 30]
          /\ prefs[1].sfx = 100
          /\ prefs[1].music = 100
          /\ prefs[1].skin = [enum |-> "Skin", name |-> "BLUEY", value |-> 3]
          /\ prefs[1].pet = [enum |-> "Pet", name |-> "NONE", value |-> 0]
          /\ prefs[1].censor_chat = TRUE
          /\ prefs[1].language = [enum |-> "Language", name |-> "ENGLISH", value |-> 0]
          /\ prefs[1].vsync = FALSE

\* The sample line has been decoded and rendered again, to itself.
C8_Witness ==
  /\ op = "str"
  /\ decoded = <<SampleText>>
  /\ string = SampleText
  /\ rendered = prefs

\* C9: hat code 90.  A decode of a 22-field text whose hat token is the
\* integer 90 that returns yields the member MINIME; the names MINIME and
\* NINJA_MASK both refer to that member, of value 90; and rendering a record
\* (with a comma-free name) whose hat has value 90 writes 90 in the hat's place.
C9_HatCode90 ==
  /\ (/\ op = "from_string"
      /\ exc = NoExc
      /\ int(Tokens(string)[11]) = Return(90))
       => prefs[1].hat = [enum |-> "Hat", name |-> "MINIME", value |-> 90]
  /\ (/\ op = "from_string"
      /\ Len(Tokens(string)) = 22
      /\ OtherwiseValid(Tokens(string), 11)
      /\ int(Tokens(string)[11]) = Return(90))
       => exc = NoExc
  /\ EnumGetItem("Hat", "NINJA_MASK") = EnumGetItem("Hat", "MINIME")
  /\ EnumGetItem("Hat", "MINIME") = [enum |-> "Hat", name |-> "MINIME", value |-> 90]
  /\ (/\ op = "str"
      /\ CommaFree(prefs[1].name)
      /\ prefs[1].hat.value = 90)
       => Tokens(string)[11] = <<"9", "0">>

\* A record constructed with Hat.NINJA_MASK has been rendered, with 90 for the
\* hat, and decoded back to MINIME.
C9_Witness ==
  /\ op = "from_string"
  /\ exc = NoExc
  /\ args # <<>>
  /\ args[1][11] = EnumGetItem("Hat", "NINJA_MASK")
  /\ rendered = <<PlayerPrefs(args[1])>>
  /\ Tokens(string)[11] = <<"9", "0">>
  /\ prefs[1].hat.name = "MINIME"

\* C10 (as claimed): after a write the file holds exactly the record's text,
\* whatever it held before; and reading the file back returns a record equal
\* to the one last written, for every valid record with a comma-free name.
C10_WriteThenRead ==
  /\ op = "write" => file = __str__(written[1])
  /\ (/\ op = "from_path"
      /\ written # <<>>
      /\ ValidRecord(written[1])
      /\ CommaFree(written[1].name))
       => (exc = NoExc /\ PrefsEq(prefs[1], written[1]))

====
